---------------------------- MODULE Spec2Model ----------------------------
(***************************************************************************)
(* torch/csrc/DeviceAccelerator.cpp: the seven accelerator bindings        *)
(* registered by torch::accelerator::initModule, run by an interpreter     *)
(* thread that holds the GIL, over the accelerator layer they delegate to. *)
(*                                                                         *)
(* A handler is a composition of collaborator calls over a "world" record: *)
(* the accelerator layer's state, the log of collaborator calls made by    *)
(* the handler so far (each with the state it was made in), the pending    *)
(* C++ exception (err) and the value returned.  A collaborator call made   *)
(* while an exception is pending does not happen (stack unwinding).        *)
(***************************************************************************)
EXTENDS Integers, Sequences, FiniteSets, TLC

\* ------------------------------------------------------------------ bounds
DeviceCount == 2      \* devices of the registered accelerator backend
MaxStreamId == 1      \* stream ids per device: 0 (default) .. MaxStreamId
MaxOtherSteps == 2    \* steps counted for the other interpreter thread

\* ------------------------------------------------------------------ values
NoAccelerator == "nullopt"                  \* std::nullopt of optional<DeviceType>
kCPU == "cpu"
AcceleratorTypes == {"cuda", "xpu"}
ValidIndices == 0 .. (DeviceCount - 1)
DeviceIndices == -1 .. DeviceCount          \* c10::DeviceIndex arguments tried
StreamIds == 0 .. MaxStreamId
Streams == [device_index : 0 .. DeviceCount, id : StreamIds]   \* c10::Stream
NoValue == [none |-> TRUE]                  \* a void return

VARIABLES
    acc,            \* the registered accelerator backend, or NoAccelerator
    initialized,    \* the backend's device subsystem is lazily initialized
    deviceIndex,    \* the active device index of the accelerator layer
    currentStream,  \* the current stream id of every device
    gil,            \* holder of the interpreter lock: "caller", "other", "none"
    pc,             \* position of the calling thread
    op,             \* the binding called last: [name, args]
    res,            \* its outcome: [kind, val]
    calls,          \* the collaborator calls it made, in order
    otherSteps      \* progress made by the other interpreter thread

vars == <<acc, initialized, deviceIndex, currentStream, gil, pc, op, res,
          calls, otherSteps>>

\* ------------------------------------------------------- collaborator layer
World == [acc |-> acc, initialized |-> initialized, deviceIndex |-> deviceIndex,
          currentStream |-> currentStream, calls |-> <<>>, err |-> "none",
          ret |-> NoValue]

Log(w, prim, args) ==
    [w EXCEPT !.calls = Append(@, [prim |-> prim, args |-> args,
                                   init |-> w.initialized,
                                   idx |-> w.deviceIndex])]

Raise(w, e) == [w EXCEPT !.err = e]

\* at::accelerator::getAccelerator(checked): the resolved kind in ret
getAccelerator(w, checked) ==
    IF w.err # "none" THEN w
    ELSE LET l == Log(w, "getAccelerator", <<checked>>)
         IN  IF checked /\ w.acc = NoAccelerator
             THEN Raise(l, "NoAccelerator")
             ELSE [l EXCEPT !.ret = w.acc]

\* torch::utils::maybe_initialize_device(optional<DeviceType>)
maybe_initialize_device(w, device_type) ==
    IF w.err # "none" THEN w
    ELSE LET l == Log(w, "maybe_initialize_device", <<device_type>>)
         IN  IF device_type = NoAccelerator THEN l
             ELSE [l EXCEPT !.initialized = TRUE]

\* torch::utils::is_device_initialized(DeviceType)
is_device_initialized(w, device_type) ==
    IF w.err # "none" THEN w
    ELSE [Log(w, "is_device_initialized", <<device_type>>)
             EXCEPT !.ret = w.initialized]

\* at::accelerator::deviceCount()
deviceCount(w) ==
    IF w.err # "none" THEN w
    ELSE [Log(w, "deviceCount", <<>>)
             EXCEPT !.ret = IF w.acc = NoAccelerator THEN 0 ELSE DeviceCount]

\* at::accelerator::setDeviceIndex(device_index)
setDeviceIndex(w, device_index) ==
    IF w.err # "none" THEN w
    ELSE LET l == Log(w, "setDeviceIndex", <<device_index>>)
         IN  IF device_index \in ValidIndices
             THEN [l EXCEPT !.deviceIndex = device_index]
             ELSE Raise(l, "InvalidDevice")

\* at::accelerator::getDeviceIndex()
getDeviceIndex(w) ==
    IF w.err # "none" THEN w
    ELSE [Log(w, "getDeviceIndex", <<>>) EXCEPT !.ret = w.deviceIndex]

\* at::accelerator::setCurrentStream(stream)
setCurrentStream(w, stream) ==
    IF w.err # "none" THEN w
    ELSE LET l == Log(w, "setCurrentStream", <<stream>>)
         IN  IF stream.device_index \in ValidIndices
             THEN [l EXCEPT !.currentStream[stream.device_index] = stream.id]
             ELSE Raise(l, "InvalidDevice")

\* at::accelerator::getCurrentStream(device_index); -1 is the active device
getCurrentStream(w, device_index) ==
    IF w.err # "none" THEN w
    ELSE LET l == Log(w, "getCurrentStream", <<device_index>>)
             d == IF device_index = -1 THEN w.deviceIndex ELSE device_index
         IN  IF d \in ValidIndices
             THEN [l EXCEPT !.ret = [device_index |-> d,
                                     id |-> w.currentStream[d]]]
             ELSE Raise(l, "InvalidDevice")

\* at::accelerator::synchronizeDevice(device_index): entered, then it blocks
synchronizeDevice(w, device_index) ==
    IF w.err # "none" THEN w
    ELSE Log(w, "synchronizeDevice", <<device_index>>)

\* ------------------------------------------------------------ the bindings
\* a binding that resolves the accelerator strictly where line 13 does not
getAccelerator_strict(w) ==
    LET w1 == getAccelerator(w, TRUE)
    IN  IF w1.err # "none" THEN w1
        ELSE [w1 EXCEPT !.ret = [type |-> w1.ret, index |-> -1]]

\* lines 10-14
_accelerator_getAccelerator(w) ==
    LET w1 == getAccelerator(w, FALSE)
    IN  [w1 EXCEPT !.ret = [type |-> IF w1.ret = NoAccelerator THEN kCPU
                                     ELSE w1.ret,
                            index |-> -1]]

\* the count queried before the lazy initialization of line 18
deviceCount_before_init(w) ==
    LET w1 == getAccelerator(w, FALSE)
        w2 == deviceCount(w1)
        w3 == maybe_initialize_device(w2, w1.ret)
    IN  [w3 EXCEPT !.ret = w2.ret]

\* lines 16-20
_accelerator_deviceCount(w) ==
    LET w1 == getAccelerator(w, FALSE)
        w2 == maybe_initialize_device(w1, w1.ret)
    IN  deviceCount(w2)

\* the index handed to the primitive without the test of line 25
setDeviceIndex_no_sentinel(w, device_index) ==
    LET w1 == getAccelerator(w, TRUE)
        w2 == maybe_initialize_device(w1, w1.ret)
        w3 == setDeviceIndex(w2, device_index)
    IN  IF w3.err # "none" THEN w3 ELSE [w3 EXCEPT !.ret = NoValue]

\* lines 22-30
_accelerator_setDeviceIndex(w, device_index) ==
    LET w1 == getAccelerator(w, TRUE)
    IN  IF w1.err # "none" THEN w1
        ELSE IF device_index < 0 THEN [w1 EXCEPT !.ret = NoValue]
        ELSE LET w2 == maybe_initialize_device(w1, w1.ret)
                 w3 == setDeviceIndex(w2, device_index)
             IN  [w3 EXCEPT !.ret = NoValue]

\* the accelerator resolved without the check of line 33
getDeviceIndex_unchecked(w) ==
    LET w1 == getAccelerator(w, FALSE)
        w2 == maybe_initialize_device(w1, w1.ret)
    IN  getDeviceIndex(w2)

\* lines 32-36
_accelerator_getDeviceIndex(w) ==
    LET w1 == getAccelerator(w, TRUE)
        w2 == maybe_initialize_device(w1, w1.ret)
    IN  getDeviceIndex(w2)

\* the stream activated without the device switch of lines 42-44
setStream_no_switch(w, stream) ==
    LET w1 == getAccelerator(w, TRUE)
        w2 == maybe_initialize_device(w1, w1.ret)
        w5 == setCurrentStream(w2, stream)
    IN  [w5 EXCEPT !.ret = NoValue]

\* the stream activated before the device switch of lines 42-44
setStream_switch_last(w, stream) ==
    LET w1 == getAccelerator(w, TRUE)
        w2 == maybe_initialize_device(w1, w1.ret)
        w3 == setCurrentStream(w2, stream)
        w4 == getDeviceIndex(w3)
        w5 == IF w4.err = "none" /\ w4.ret # stream.device_index
              THEN setDeviceIndex(w4, stream.device_index)
              ELSE w4
    IN  [w5 EXCEPT !.ret = NoValue]

\* lines 38-46
_accelerator_setStream(w, stream) ==
    LET w1 == getAccelerator(w, TRUE)
        w2 == maybe_initialize_device(w1, w1.ret)
        w3 == getDeviceIndex(w2)
        w4 == IF w3.err = "none" /\ w3.ret # stream.device_index
              THEN setDeviceIndex(w3, stream.device_index)
              ELSE w3
        w5 == setCurrentStream(w4, stream)
    IN  [w5 EXCEPT !.ret = NoValue]

\* the stream queried without the lazy initialization of line 50
getStream_no_init(w, device_index) ==
    LET w1 == getAccelerator(w, TRUE)
    IN  getCurrentStream(w1, device_index)

\* lines 48-52
_accelerator_getStream(w, device_index) ==
    LET w1 == getAccelerator(w, TRUE)
        w2 == maybe_initialize_device(w1, w1.ret)
    IN  getCurrentStream(w2, device_index)

\* the synchronization without the early return of lines 56-58
synchronizeDevice_no_early_return(w, device_index) ==
    LET w1 == getAccelerator(w, TRUE)
        w2 == is_device_initialized(w1, w1.ret)
    IN  IF w2.err # "none" THEN [w2 EXCEPT !.ret = FALSE]
        ELSE LET w3 == maybe_initialize_device(w2, w1.ret)
                 w4 == synchronizeDevice(w3, device_index)
             IN  [w4 EXCEPT !.ret = TRUE]

\* lines 54-59 and 62: up to the entry into the blocking primitive; ret says
\* whether the handler is now inside it (FALSE: it returned or threw before)
_accelerator_synchronizeDevice(w, device_index) ==
    LET w1 == getAccelerator(w, TRUE)
        w2 == is_device_initialized(w1, w1.ret)
    IN  IF w2.err # "none" THEN [w2 EXCEPT !.ret = FALSE]
        ELSE IF ~w2.ret THEN [w2 EXCEPT !.ret = FALSE]
        ELSE LET w3 == maybe_initialize_device(w2, w1.ret)
                 w4 == synchronizeDevice(w3, device_index)
             IN  [w4 EXCEPT !.ret = TRUE]

\* the blocking call made with the lock still held
gil_kept(holder) == holder

\* line 61: py::gil_scoped_release constructor, the lock holder it leaves
gil_scoped_release(holder) == "none"

\* a release undone by hand after the call, skipped when the call throws
gil_reacquired_on_return_only(outcome) == outcome = "ok"

\* line 63: ~gil_scoped_release runs when the scope is left, normally or by an
\* exception: TRUE when the thread has to take the lock back
gil_scoped_release_dtor(outcome) == TRUE

\* ------------------------------------------------------------------ actions
Init ==
    /\ acc \in AcceleratorTypes \cup {NoAccelerator}
    /\ initialized = FALSE
    /\ deviceIndex = 0
    /\ currentStream = [d \in ValidIndices |-> 0]
    /\ gil = "caller"
    /\ pc = "idle"
    /\ op = [name |-> "none", args |-> <<>>]
    /\ res = [kind |-> "ok", val |-> NoValue]
    /\ calls = <<>>
    /\ otherSteps = 0

\* a binding that runs to completion holding the interpreter lock
Finish(name, args, w) ==
    /\ acc' = w.acc
    /\ initialized' = w.initialized
    /\ deviceIndex' = w.deviceIndex
    /\ currentStream' = w.currentStream
    /\ calls' = w.calls
    /\ op' = [name |-> name, args |-> args]
    /\ res' = IF w.err = "none" THEN [kind |-> "ok", val |-> w.ret]
              ELSE [kind |-> "error", val |-> w.err]

Callable == pc = "idle" /\ gil = "caller"

GetAccelerator ==
    /\ Callable
    /\ Finish("getAccelerator", <<>>, _accelerator_getAccelerator(World))
    /\ UNCHANGED <<gil, pc, otherSteps>>

DeviceCountCall ==
    /\ Callable
    /\ Finish("deviceCount", <<>>, _accelerator_deviceCount(World))
    /\ UNCHANGED <<gil, pc, otherSteps>>

SetDeviceIndex ==
    /\ Callable
    /\ \E i \in DeviceIndices :
          Finish("setDeviceIndex", <<i>>, _accelerator_setDeviceIndex(World, i))
    /\ UNCHANGED <<gil, pc, otherSteps>>

GetDeviceIndex ==
    /\ Callable
    /\ Finish("getDeviceIndex", <<>>, _accelerator_getDeviceIndex(World))
    /\ UNCHANGED <<gil, pc, otherSteps>>

SetStream ==
    /\ Callable
    /\ \E s \in Streams :
          Finish("setStream", <<s>>, _accelerator_setStream(World, s))
    /\ UNCHANGED <<gil, pc, otherSteps>>

GetStream ==
    /\ Callable
    /\ \E i \in DeviceIndices :
          Finish("getStream", <<i>>, _accelerator_getStream(World, i))
    /\ UNCHANGED <<gil, pc, otherSteps>>

\* lines 54-62: the handler up to the blocking call; it either returns (or
\* throws) at once, or is left waiting inside the primitive without the lock
SynchronizeDevice ==
    /\ Callable
    /\ \E i \in DeviceIndices :
          LET w == _accelerator_synchronizeDevice(World, i)
          IN  /\ Finish("synchronizeDevice", <<i>>, [w EXCEPT !.ret = NoValue])
              /\ IF w.ret
                 THEN pc' = "waiting" /\ gil' = gil_scoped_release(gil)
                 ELSE pc' = "idle" /\ gil' = gil
    /\ UNCHANGED otherSteps

\* line 62: the blocking primitive completes or throws
SynchronizeReturns ==
    /\ pc = "waiting"
    /\ \E outcome \in {"ok", "error"} :
          /\ res' = IF outcome = "ok" THEN [kind |-> "ok", val |-> NoValue]
                    ELSE [kind |-> "error", val |-> "SyncFailed"]
          /\ IF gil_scoped_release_dtor(outcome)
             THEN pc' = "reacquire"
             ELSE pc' = "idle"
    /\ UNCHANGED <<acc, initialized, deviceIndex, currentStream, gil, op,
                   calls, otherSteps>>

\* line 63: the destructor blocks until the lock is free and takes it
SynchronizeReacquire ==
    /\ pc = "reacquire"
    /\ gil = "none"
    /\ gil' = "caller"
    /\ pc' = "idle"
    /\ UNCHANGED <<acc, initialized, deviceIndex, currentStream, op, res,
                   calls, otherSteps>>

\* another interpreter thread takes the free lock, runs, gives it up
OtherAcquire ==
    /\ gil = "none"
    /\ gil' = "other"
    /\ UNCHANGED <<acc, initialized, deviceIndex, currentStream, pc, op, res,
                   calls, otherSteps>>

OtherProgress ==
    /\ gil = "other"
    /\ otherSteps < MaxOtherSteps
    /\ otherSteps' = otherSteps + 1
    /\ UNCHANGED <<acc, initialized, deviceIndex, currentStream, gil, pc, op,
                   res, calls>>

OtherRelease ==
    /\ gil = "other"
    /\ gil' = "none"
    /\ UNCHANGED <<acc, initialized, deviceIndex, currentStream, pc, op, res,
                   calls, otherSteps>>

Next ==
    \/ GetAccelerator
    \/ DeviceCountCall
    \/ SetDeviceIndex
    \/ GetDeviceIndex
    \/ SetStream
    \/ GetStream
    \/ SynchronizeDevice
    \/ SynchronizeReturns
    \/ SynchronizeReacquire
    \/ OtherAcquire
    \/ OtherProgress
    \/ OtherRelease

Spec == Init /\ [][Next]_vars

TypeOK ==
    /\ acc \in AcceleratorTypes \cup {NoAccelerator}
    /\ initialized \in BOOLEAN
    /\ deviceIndex \in ValidIndices
    /\ currentStream \in [ValidIndices -> StreamIds]
    /\ gil \in {"caller", "other", "none"}
    /\ pc \in {"idle", "waiting", "reacquire"}
    /\ otherSteps \in 0 .. MaxOtherSteps

\* ------------------------------------------------------------------- claims
HasCall(cs, prim) == \E k \in 1 .. Len(cs) : cs[k].prim = prim

\* the state the last binding was called in (its first collaborator call is
\* always the accelerator resolution, made before anything changes)
IndexAtCall == calls[1].idx
InitAtCall == calls[1].init

NegativeSetDeviceIndex(o) == o.name = "setDeviceIndex" /\ o.args[1] < 0

\* C1: a call of set-device-index with a negative index leaves the active
\* device index as it was, whatever it was and whether or not the subsystem
\* is initialized, and does not invoke the set-device-index primitive.
C1_NegativeIndexIsNoOp ==
    [][(pc = "idle" /\ NegativeSetDeviceIndex(op'))
          => /\ deviceIndex' = deviceIndex
             /\ currentStream' = currentStream
             /\ ~HasCall(calls', "setDeviceIndex")]_vars

C1_Witness ==
    /\ NegativeSetDeviceIndex(op)
    /\ res.kind = "ok"
    /\ initialized
    /\ deviceIndex # 0

C1_WitnessUninitialized ==
    NegativeSetDeviceIndex(op) /\ res.kind = "ok" /\ ~initialized

StrictOps == {"setDeviceIndex", "getDeviceIndex", "setStream", "getStream",
              "synchronizeDevice"}

C3_GetAcceleratorFallsBackToCPU ==
    op.name = "getAccelerator"
       => /\ res.kind = "ok"
          /\ res.val.type = IF acc = NoAccelerator THEN kCPU ELSE acc

C3_Witness ==
    /\ op.name = "getAccelerator"
    /\ acc = NoAccelerator
    /\ res = [kind |-> "ok", val |-> [type |-> kCPU, index |-> -1]]

\* C4: a call of synchronize-device made while the device subsystem is not
\* initialized ends at once: the blocking primitive is not invoked, the
\* lock is not released, and with an accelerator resolved it returns normally.
C4_SynchronizeUninitializedReturns ==
    [][(pc = "idle" /\ op'.name = "synchronizeDevice" /\ ~initialized)
          => /\ pc' = "idle"
             /\ gil' = "caller"
             /\ ~HasCall(calls', "synchronizeDevice")
             /\ acc # NoAccelerator => res'.kind = "ok"]_vars

C4_Witness ==
    /\ op.name = "synchronizeDevice"
    /\ acc # NoAccelerator
    /\ ~initialized
    /\ pc = "idle"
    /\ res.kind = "ok"

\* C5: in a call of set-stream with a stream bound to device index D, the
\* set-current-stream primitive runs only with the active device index equal
\* to D; when the index was not D at the call, the set-device-index primitive
\* was invoked with D before it.
C5_DeviceSwitchedBeforeStream ==
    op.name = "setStream"
       => \A k \in 1 .. Len(calls) :
             calls[k].prim = "setCurrentStream"
                => /\ calls[k].idx = op.args[1].device_index
                   /\ IndexAtCall # op.args[1].device_index
                         => \E j \in 1 .. (k - 1) :
                               /\ calls[j].prim = "setDeviceIndex"
                               /\ calls[j].args = <<op.args[1].device_index>>

C5_Witness ==
    /\ op.name = "setStream"
    /\ res.kind = "ok"
    /\ IndexAtCall # op.args[1].device_index
    /\ HasCall(calls, "setCurrentStream")

\* C6: while synchronize-device waits inside the blocking primitive the
\* calling thread does not hold the interpreter lock, and whenever the lock
\* is free another interpreter thread can take it.
C6_LockReleasedWhileWaiting ==
    pc = "waiting"
       => /\ gil # "caller"
          /\ gil = "none" => ENABLED OtherAcquire

C6_Witness ==
    /\ pc = "waiting"
    /\ gil = "other"
    /\ otherSteps > 0

\* C7: whenever the calling thread is outside a binding (the binding has
\* returned or thrown), it holds the interpreter lock; in particular after a
\* synchronize-device whose blocking primitive failed.
C7_LockHeldOnEveryExit ==
    pc = "idle" => gil = "caller"

C7_Witness ==
    /\ op.name = "synchronizeDevice"
    /\ pc = "idle"
    /\ res = [kind |-> "error", val |-> "SyncFailed"]
    /\ gil = "caller"
    /\ otherSteps > 0

\* C8: every call of device count runs the lazy initialization for the
\* resolved accelerator kind before it queries the device-count primitive, so
\* that with an accelerator resolved the primitive runs initialized.
C8_DeviceCountInitializesFirst ==
    op.name = "deviceCount"
       => \E k \in 1 .. Len(calls) :
             /\ calls[k].prim = "deviceCount"
             /\ \E j \in 1 .. (k - 1) :
                   /\ calls[j].prim = "maybe_initialize_device"
                   /\ calls[j].args = <<acc>>
             /\ acc # NoAccelerator => calls[k].init

C8_Witness ==
    /\ op.name = "deviceCount"
    /\ acc # NoAccelerator
    /\ ~InitAtCall
    /\ initialized
    /\ res = [kind |-> "ok", val |-> DeviceCount]

DevicePrimitives == {"setDeviceIndex", "getDeviceIndex", "setCurrentStream",
                     "getCurrentStream", "synchronizeDevice"}

\* C9: the primitives set-device-index, get-device-index, set-current-stream,
\* get-current-stream and synchronize-device are invoked only with the device
\* subsystem initialized, and neither set-device-index with a negative index
\* nor synchronize-device on an uninitialized subsystem initializes it.
C9_PrimitivesRunInitialized ==
    [][/\ \A k \in 1 .. Len(calls') :
             calls'[k].prim \in DevicePrimitives => calls'[k].init
       /\ (pc = "idle"
             /\ \/ NegativeSetDeviceIndex(op')
                \/ (op'.name = "synchronizeDevice" /\ ~initialized))
          => /\ initialized' = initialized
             /\ ~HasCall(calls', "maybe_initialize_device")]_vars

C9_Witness ==
    /\ op.name = "getStream"
    /\ res.kind = "ok"
    /\ ~InitAtCall
    /\ HasCall(calls, "getCurrentStream")

C9_WitnessNoInitialization ==
    /\ op.name = "synchronizeDevice"
    /\ acc # NoAccelerator
    /\ res.kind = "ok"
    /\ ~initialized

\* C10: after a successful set-stream with stream S bound to device index D,
\* get-device-index returns D and get-stream for D returns S; when the active
\* index was D already, the set-device-index primitive was not invoked.
C10_SetStreamThenGet ==
    (op.name = "setStream" /\ res.kind = "ok")
       => LET S == op.args[1]
              D == S.device_index
          IN  /\ _accelerator_getDeviceIndex(World).err = "none"
              /\ _accelerator_getDeviceIndex(World).ret = D
              /\ _accelerator_getStream(World, D).err = "none"
              /\ _accelerator_getStream(World, D).ret = S
              /\ IndexAtCall = D => ~HasCall(calls, "setDeviceIndex")

C10_Witness ==
    /\ op.name = "setStream"
    /\ res.kind = "ok"
    /\ IndexAtCall # op.args[1].device_index
    /\ op.args[1].id # 0
    /\ deviceIndex = op.args[1].device_index

C10_WitnessSameDevice ==
    /\ op.name = "setStream"
    /\ res.kind = "ok"
    /\ IndexAtCall = op.args[1].device_index
    /\ op.args[1].id # 0
=============================================================================
